---- MODULE Spec2Model ----
(***************************************************************************)
(* A model of ctxcore/rnkdb.py: the PyArrow thread-count configuration,    *)
(* the ranking database classes (FeatherRankingDatabase, MemoryDecorator)  *)
(* and the opendb factory.                                                 *)
(***************************************************************************)
EXTENDS Integers, Sequences, FiniteSets, TLC

VARIABLES
    environ,            \* os.environ.get("PYARROW_THREADS"): NoEnv or a string (sequence of characters)
    pyarrow_threads,    \* PyArrowThreads.pyarrow_threads
    cpu_count,          \* the thread-pool size held by pyarrow (pa.cpu_count())
    pc,                 \* position of the module's import: "class_body", "module_call", "ready"
    objs,               \* the database objects constructed so far, in order of construction
    store_opens,        \* number of times the external store was opened (init_ct_db calls)
    memo_total_genes,   \* cache of @memoize on FeatherRankingDatabase.total_genes, keyed by instance
    memo_genes,         \* cache of @memoize on FeatherRankingDatabase.genes, keyed by instance
    memo_geneset,       \* cache of @memoize on RankingDatabase.geneset, keyed by instance
    disk,               \* the ranking table stored in the file d/a.b.feather
    call                \* the last call made by the caller, its arguments and its outcome

vars == <<environ, pyarrow_threads, cpu_count, pc, objs, store_opens,
          memo_total_genes, memo_genes, memo_geneset, disk, call>>

threadVars == <<environ, pyarrow_threads, cpu_count, pc>>
dbVars == <<objs, store_opens, memo_total_genes, memo_genes, memo_geneset, disk>>

----------------------------------------------------------------------------
(* Bounds *)

MaxEnvLen == 3          \* longest PYARROW_THREADS value explored
MaxThreadArg == 3       \* largest explicit nbr_threads argument explored
MaxObjs == 3            \* most database objects constructed in one run
MaxSigLen == 2          \* longest signature (gs.genes) explored

----------------------------------------------------------------------------
(* Generic helpers *)

Range(s) == {s[i] : i \in 1..Len(s)}

SeqsUpTo(S, n) == UNION {[1..k -> S] : k \in 0..n}

NoCall == [op |-> "none"]

----------------------------------------------------------------------------
(* Thread-count configuration: class PyArrowThreads *)

DefaultThreads == 4

NoEnv == <<"<unset>">>

EnvChars == {"-", "+", "0", "1", "7", "a", " ", "_"}
EnvValues == {NoEnv} \cup SeqsUpTo(EnvChars, MaxEnvLen)

Digits == {"0", "1", "7"}
DigitVal(c) == CASE c = "0" -> 0 [] c = "1" -> 1 [] c = "7" -> 7

RECURSIVE LStrip(_)
LStrip(s) == IF s # <<>> /\ Head(s) = " " THEN LStrip(Tail(s)) ELSE s
RECURSIVE RStrip(_)
RStrip(s) == IF s # <<>> /\ s[Len(s)] = " " THEN RStrip(SubSeq(s, 1, Len(s) - 1)) ELSE s
Strip(s) == RStrip(LStrip(s))

\* The part of an integer literal after its sign: digits, single underscores between digits.
ValidDigits(b) ==
    /\ b # <<>>
    /\ \A i \in 1..Len(b) : b[i] \in Digits \cup {"_"}
    /\ b[1] # "_"
    /\ b[Len(b)] # "_"
    /\ \A i \in 1..(Len(b) - 1) : ~(b[i] = "_" /\ b[i + 1] = "_")

RECURSIVE DigitsValue(_, _)
DigitsValue(b, acc) ==
    IF b = <<>> THEN acc
    ELSE IF Head(b) = "_" THEN DigitsValue(Tail(b), acc)
    ELSE DigitsValue(Tail(b), 10 * acc + DigitVal(Head(b)))

HasSign(t) == t # <<>> /\ Head(t) \in {"-", "+"}
Unsigned(t) == IF HasSign(t) THEN Tail(t) ELSE t

\* int(s) raises ValueError
IntRaises(s) == ~ValidDigits(Unsigned(Strip(s)))

\* int(s) when it does not raise
IntOf(s) ==
    LET t == Strip(s)
        v == DigitsValue(Unsigned(t), 0)
    IN  IF HasSign(t) /\ Head(t) = "-" THEN -v ELSE v

\* Truthiness of os.environ.get("PYARROW_THREADS"): None and "" are falsy.
EnvTruthy(e) == e # NoEnv /\ e # <<>>

\* The class body, lines 25-36.
ResolveThreadsClampsNegativeOnly(e) ==
    IF EnvTruthy(e)
    THEN LET parsed == IF IntRaises(e) THEN DefaultThreads ELSE IntOf(e)
         IN  IF parsed < 0 THEN 1 ELSE parsed
    ELSE DefaultThreads
ResolveThreads(e) ==
    IF EnvTruthy(e)
    THEN LET parsed == IF IntRaises(e) THEN DefaultThreads ELSE IntOf(e)
         IN  IF parsed < 1 THEN 1 ELSE parsed
    ELSE DefaultThreads

ClassBody ==
    /\ pc = "class_body"
    /\ pyarrow_threads' = ResolveThreads(environ)
    /\ pc' = "module_call"
    /\ call' = [op |-> "class_body"]
    /\ UNCHANGED <<environ, cpu_count>>
    /\ UNCHANGED dbVars

\* nbr_threads arguments: None, or a count.
NoArg == [given |-> FALSE, n |-> 0]
Given(n) == [given |-> TRUE, n |-> n]
ThreadArgs == {NoArg} \cup {Given(n) : n \in 0..MaxThreadArg}

\* Truthiness of nbr_threads: None and 0 are falsy.
ArgTruthy(a) == a.given /\ a.n # 0

\* "nbr_threads if nbr_threads else PyArrowThreads.pyarrow_threads", line 41.
ArgNoFallbackOnZero(a) == IF a.given THEN a.n ELSE pyarrow_threads
ThreadsArgument(a) == IF ArgTruthy(a) THEN a.n ELSE pyarrow_threads

\* pa.set_cpu_count(count): pyarrow takes a count of at least 1 as its pool size, and
\* raises ValueError for any other, keeping its setting.
SetCpuCountRaises(count) == count < 1

set_nbr_pyarrow_threads(a) ==
    LET count == ThreadsArgument(a)
    IN  /\ cpu_count' = IF SetCpuCountRaises(count) THEN cpu_count ELSE count
        /\ call' = [op |-> "set_nbr_pyarrow_threads", arg |-> a,
                    err |-> IF SetCpuCountRaises(count) THEN "ValueError" ELSE "none"]
        /\ UNCHANGED <<environ, pyarrow_threads>>
        /\ UNCHANGED dbVars

\* PyArrowThreads.set_nbr_pyarrow_threads() at import, line 44.
ModuleCall ==
    /\ pc = "module_call"
    /\ pc' = "ready"
    /\ set_nbr_pyarrow_threads(NoArg)

SetNbrPyarrowThreads(a) ==
    /\ pc = "ready"
    /\ pc' = pc
    /\ set_nbr_pyarrow_threads(a)

----------------------------------------------------------------------------
(* The filesystem and the external ranking store *)

FEATHER == <<".", "f", "e", "a", "t", "h", "e", "r">>

PathA == <<"d", "/", "a", ".", "b">> \o FEATHER  \* d/a.b.feather
PathTxt == <<"a", ".", "t", "x", "t">>          \* a.txt
PathUpper == <<"a", ".", "F", "E", "A", "T", "H", "E", "R">>  \* a.FEATHER
PathDot == FEATHER                              \* .feather (a dotfile, no extension)
PathNoExt == <<"a">>                            \* a
PathDirDot == <<"e">> \o FEATHER \o <<"/", "a">>  \* e.feather/a
PathDir == <<"d">>                              \* d, a directory
PathMissing == <<"c">> \o FEATHER               \* c.feather, not on disk
PathMissingTxt == <<"c", ".", "t", "x", "t">>   \* c.txt, not on disk

Paths == {PathA, PathTxt, PathUpper, PathDot, PathNoExt, PathDirDot,
          PathDir, PathMissing, PathMissingTxt}

RegularFiles == {PathA, PathTxt, PathUpper, PathDot, PathNoExt, PathDirDot}

\* The files that hold a ranking store; opening any other file fails in the store.
StoreFiles == {PathA, PathUpper}

\* os.path.isfile
IsFile(fname) == fname \in RegularFiles

Names == {"", "x", "y"}

\* A ranking table: rows are features, columns are genes, data[c][r] is the 0-based rank.
NoTable == [rows |-> <<>>, cols |-> <<>>, data |-> <<>>]

TableA == [rows |-> <<"m1", "m2">>,
           cols |-> <<"B", "A", "C">>,
           data |-> << <<0, 1>>, <<1, 2>>, <<2, 0>> >>]
TableB == [rows |-> <<"m1">>,
           cols |-> <<"A", "D">>,
           data |-> << <<1>>, <<0>> >>]

\* The table stored in a .feather file.
FileTable(fname) == IF fname = PathA THEN disk ELSE TableB

\* Genes a signature may name: two that stores rank, and one no store ranks.
SigGenes == {"A", "B", "E"}
Signatures == SeqsUpTo(SigGenes, MaxSigLen)

\* RegionOrGeneIDs(region_or_gene_ids, regions_or_genes_type): a typed collection of
\* identifiers, built from a set.
RegionOrGeneIDs(region_or_gene_ids, regions_or_genes_type) ==
    [ids |-> region_or_gene_ids, type |-> regions_or_genes_type, ordered |-> FALSE]

\* The store's identifier catalog: the ordered identifiers and their type.
Catalog(ids, type) == [ids |-> ids, type |-> type, ordered |-> TRUE]

\* The identifiers a typed collection holds, as a set.
IdSet(r) == IF r.ordered THEN Range(r.ids) ELSE r.ids

NoStore == [all_region_or_gene_ids |-> Catalog(<<>>, "none"),
            nbr_total_region_or_gene_ids |-> 0,
            df |-> NoTable]

\* CisTargetDatabase.init_ct_db(ct_db_filename, engine): the opened store.
init_ct_db(fname) ==
    [all_region_or_gene_ids |-> Catalog(FileTable(fname).cols, "genes"),
     nbr_total_region_or_gene_ids |-> Len(FileTable(fname).cols),
     df |-> FileTable(fname)]

\* The columns of table t at the positions mask marks, in t's order.
TakeColumns(t, mask) ==
    LET Marked(i) == mask[i]
        idx == SelectSeq([i \in 1..Len(t.cols) |-> i], Marked)
    IN  [rows |-> t.rows,
         cols |-> [k \in 1..Len(idx) |-> t.cols[idx[k]]],
         data |-> [k \in 1..Len(idx) |-> t.data[idx[k]]]]

\* CisTargetDatabase.subset_to_pandas(region_or_gene_ids): the store's table restricted
\* to the identifiers asked for, all feature rows kept.
subset_to_pandas(ct_db, region_or_gene_ids) ==
    TakeColumns(ct_db.df,
                [i \in 1..Len(ct_db.df.cols) |-> ct_db.df.cols[i] \in IdSet(region_or_gene_ids)])

----------------------------------------------------------------------------
(* os.path.splitext *)

RFind(p, c) ==
    LET at == {i \in 1..Len(p) : p[i] = c}
    IN  IF at = {} THEN 0 ELSE CHOOSE i \in at : \A j \in at : j <= i

\* os.path.splitext(p)[1]: from the last dot of the last path component, leading dots
\* of that component not counting.
SplitExt(p) ==
    LET sepIndex == RFind(p, "/")
        dotIndex == RFind(p, ".")
    IN  IF dotIndex > sepIndex /\ \E k \in (sepIndex + 1)..(dotIndex - 1) : p[k] # "."
        THEN SubSeq(p, dotIndex, Len(p))
        ELSE <<>>

----------------------------------------------------------------------------
(* cytoolz.memoize: a cache of <<instance, value>> pairs per decorated function *)

Cached(memo, o) == \E e \in memo : e[1] = o
CachedValue(memo, o) == (CHOOSE e \in memo : e[1] = o)[2]

\* What the memoized function returns for instance o, v being what its body computes.
Memoized(memo, o, v) == IF Cached(memo, o) THEN CachedValue(memo, o) ELSE v

\* The cache after that call.
MemoAfter(memo, o, v) == IF Cached(memo, o) THEN memo ELSE memo \cup {<<o, v>>}

----------------------------------------------------------------------------
(* The database objects *)

FeatherObj(fname, name) ==
    [kind |-> "Feather", _name |-> name, _fname |-> fname, ct_db |-> init_ct_db(fname),
     _db |-> 0, _df |-> NoTable, requests |-> 0]

\* requests counts the load/load_full calls the decorator has made to the database it wraps.
MemoryObj(db, df, name) ==
    [kind |-> "Memory", _name |-> name, _fname |-> <<>>, ct_db |-> NoStore,
     _db |-> db, _df |-> df, requests |-> 1]

Ids == 1..Len(objs)

\* The File-backed database that o is, or that o's chain of decorators ends in.
RECURSIVE Root(_)
Root(o) == IF objs[o].kind = "Feather" THEN o ELSE Root(objs[o]._db)

\* RankingDatabase.name
Name(o) == objs[o]._name

\* The body of FeatherRankingDatabase.total_genes
FeatherTotalGenesCountsFeatures(o) == Len(objs[o].ct_db.df.rows)
FeatherTotalGenes(o) == objs[o].ct_db.nbr_total_region_or_gene_ids

\* The body of FeatherRankingDatabase.genes
FeatherGenes(o) == objs[o].ct_db.all_region_or_gene_ids.ids

\* total_genes: memoized on the File-backed class, delegated by the decorator.
RECURSIVE TotalGenes(_)
TotalGenes(o) ==
    IF objs[o].kind = "Feather"
    THEN Memoized(memo_total_genes, o, FeatherTotalGenes(o))
    ELSE TotalGenes(objs[o]._db)

\* genes: memoized on the File-backed class, delegated by the decorator.
RECURSIVE Genes(_)
Genes(o) ==
    IF objs[o].kind = "Feather"
    THEN Memoized(memo_genes, o, FeatherGenes(o))
    ELSE Genes(objs[o]._db)

\* RankingDatabase.geneset: set(self.genes), memoized.
Geneset(o) == Memoized(memo_geneset, o, Range(Genes(o)))

\* The caches after an access to o.total_genes, o.genes, o.geneset.
TotalGenesMemoAfter(o) == MemoAfter(memo_total_genes, Root(o), FeatherTotalGenes(Root(o)))
GenesMemoAfter(o) == MemoAfter(memo_genes, Root(o), FeatherGenes(Root(o)))
GenesetMemoAfter(o) == MemoAfter(memo_geneset, o, Range(Genes(o)))
GenesMemoAfterGeneset(o) == IF Cached(memo_geneset, o) THEN memo_genes ELSE GenesMemoAfter(o)

----------------------------------------------------------------------------
(* load_full and load.  A result is the table returned (ret), whether the call was   *)
(* passed on to the wrapped database (fwd), the number of store requests (io) and    *)
(* the instance's _df after the call (df).                                            *)

RECURSIVE LoadFull(_)

FeatherLoadFull(o) ==
    [ret |-> subset_to_pandas(objs[o].ct_db, objs[o].ct_db.all_region_or_gene_ids),
     fwd |-> FALSE, io |-> 1, df |-> objs[o]._df]

FeatherLoadIgnoresSignature(o, genes) == FeatherLoadFull(o)
FeatherLoad(o, genes) ==
    LET gene_set == Geneset(o) \cap Range(genes)
    IN  [ret |-> subset_to_pandas(objs[o].ct_db,
                    RegionOrGeneIDs(gene_set, objs[o].ct_db.all_region_or_gene_ids.type)),
         fwd |-> FALSE, io |-> 1, df |-> objs[o]._df]

MemoryLoadFullUncached(o) ==
    [ret |-> LoadFull(objs[o]._db).ret, fwd |-> TRUE, io |-> LoadFull(objs[o]._db).io,
     df |-> objs[o]._df]
MemoryLoadFull(o) == [ret |-> objs[o]._df, fwd |-> FALSE, io |-> 0, df |-> objs[o]._df]

\* pandas Index.isin(values)
IsIn(columns, values) == [i \in 1..Len(columns) |-> columns[i] \in Range(values)]

\* The columns of t named in names, in the order of names (as t[names] would give).
RECURSIVE ReorderColumns(_, _)
ReorderColumns(t, names) ==
    IF names = <<>> THEN [rows |-> t.rows, cols |-> <<>>, data |-> <<>>]
    ELSE LET rest == ReorderColumns(t, Tail(names))
             at == {i \in 1..Len(t.cols) : t.cols[i] = Head(names)}
         IN  IF at = {} \/ Head(names) \in Range(rest.cols) THEN rest
             ELSE [rows |-> t.rows,
                   cols |-> <<Head(names)>> \o rest.cols,
                   data |-> <<t.data[CHOOSE i \in at : TRUE]>> \o rest.data]

MemoryLoadInSignatureOrder(o, genes) ==
    [ret |-> ReorderColumns(objs[o]._df, genes), fwd |-> FALSE, io |-> 0, df |-> objs[o]._df]
MemoryLoadKeepsSlice(o, genes) ==
    [ret |-> TakeColumns(objs[o]._df, IsIn(objs[o]._df.cols, genes)), fwd |-> FALSE, io |-> 0,
     df |-> TakeColumns(objs[o]._df, IsIn(objs[o]._df.cols, genes))]
MemoryLoad(o, genes) ==
    [ret |-> TakeColumns(objs[o]._df, IsIn(objs[o]._df.cols, genes)), fwd |-> FALSE, io |-> 0,
     df |-> objs[o]._df]

\* The set held in the geneset cache for o once o.load(gs) has used it: load builds a
\* new set with intersection() and leaves the cached one as it is.
GenesetAfterLoadInPlace(o, genes) == Geneset(o) \cap Range(genes)
GenesetAfterLoad(o, genes) == Geneset(o)

LoadFull(o) == IF objs[o].kind = "Feather" THEN FeatherLoadFull(o) ELSE MemoryLoadFull(o)
Load(o, genes) == IF objs[o].kind = "Feather" THEN FeatherLoad(o, genes) ELSE MemoryLoad(o, genes)

\* The objects after a call on o with result r.
ObjsAfter(o, r) ==
    [objs EXCEPT ![o].requests = IF r.fwd THEN @ + 1 ELSE @, ![o]._df = r.df]

----------------------------------------------------------------------------
(* Construction.  The asserts raise AssertionError; err names the check that failed: *)
(* "InvalidArgument" (no name, no database) and "NotFound" (no such file);           *)
(* "UnsupportedFormat" is opendb's ValueError and "StoreError" an error of the store *)
(* itself.  A result tells whether an object was made (made, obj), whether the store *)
(* was opened (opened), whether the wrapped database's load_full was called (loaded, *)
(* io), and the extension the error names (ext).                                     *)

NoObj == [kind |-> "none"]

Failed(err) ==
    [err |-> err, made |-> FALSE, obj |-> NoObj, opened |-> FALSE, loaded |-> FALSE,
     io |-> 0, ext |-> <<>>]

Made(obj) ==
    [err |-> "none", made |-> TRUE, obj |-> obj, opened |-> FALSE, loaded |-> FALSE,
     io |-> 0, ext |-> <<>>]

\* FeatherRankingDatabase.__init__: the name (RankingDatabase.__init__), then the file,
\* then the store is opened.
FeatherInitOpensFirst(fname, name) ==
    IF fname \in StoreFiles /\ name = "" THEN [Failed("InvalidArgument") EXCEPT !.opened = TRUE]
    ELSE IF name = "" THEN Failed("InvalidArgument")
    ELSE IF ~IsFile(fname) THEN Failed("NotFound")
    ELSE IF fname \notin StoreFiles THEN Failed("StoreError")
    ELSE [Made(FeatherObj(fname, name)) EXCEPT !.opened = TRUE]
FeatherInit(fname, name) ==
    IF name = "" THEN Failed("InvalidArgument")
    ELSE IF ~IsFile(fname) THEN Failed("NotFound")
    ELSE IF fname \notin StoreFiles THEN Failed("StoreError")
    ELSE [Made(FeatherObj(fname, name)) EXCEPT !.opened = TRUE]

\* MemoryDecorator.__init__: db is 0 for None.
MemoryInit(db) ==
    IF db = 0 THEN Failed("InvalidArgument")
    ELSE IF Name(db) = ""
         THEN [Failed("InvalidArgument") EXCEPT !.loaded = TRUE, !.io = LoadFull(db).io]
    ELSE [Made(MemoryObj(db, LoadFull(db).ret, Name(db)))
            EXCEPT !.loaded = TRUE, !.io = LoadFull(db).io]

\* opendb
opendbConstructsFirst(fname, name) ==
    IF ~IsFile(fname) THEN Failed("NotFound")
    ELSE IF name = "" THEN Failed("InvalidArgument")
    ELSE IF SplitExt(fname) = FEATHER THEN FeatherInit(fname, name)
    ELSE [FeatherInit(fname, name) EXCEPT !.err = "UnsupportedFormat", !.ext = SplitExt(fname)]
opendb(fname, name) ==
    IF ~IsFile(fname) THEN Failed("NotFound")
    ELSE IF name = "" THEN Failed("InvalidArgument")
    ELSE IF SplitExt(fname) = FEATHER THEN FeatherInit(fname, name)
    ELSE [Failed("UnsupportedFormat") EXCEPT !.ext = SplitExt(fname)]

\* The heap and the store after a construction with result r.
Constructed(r) ==
    /\ r.made => Len(objs) < MaxObjs
    /\ objs' = IF r.made THEN Append(objs, r.obj) ELSE objs
    /\ store_opens' = IF r.opened THEN store_opens + 1 ELSE store_opens
    /\ UNCHANGED <<memo_total_genes, memo_genes, memo_geneset, disk>>
    /\ UNCHANGED threadVars

Returned(r) == IF r.made THEN Len(objs) + 1 ELSE 0

OpenDb(fname, name) ==
    LET r == opendb(fname, name)
    IN  /\ pc = "ready"
        /\ Constructed(r)
        /\ call' = [op |-> "opendb", fname |-> fname, name |-> name,
                    err |-> r.err, ext |-> r.ext, ret |-> Returned(r)]

NewFeather(fname, name) ==
    LET r == FeatherInit(fname, name)
    IN  /\ pc = "ready"
        /\ Constructed(r)
        /\ call' = [op |-> "FeatherRankingDatabase", fname |-> fname, name |-> name,
                    err |-> r.err, ret |-> Returned(r)]

NewMemory(db) ==
    LET r == MemoryInit(db)
    IN  /\ pc = "ready"
        /\ Constructed(r)
        /\ call' = [op |-> "MemoryDecorator", db |-> db, err |-> r.err,
                    loaded |-> r.loaded, io |-> r.io, ret |-> Returned(r)]

----------------------------------------------------------------------------
(* Calls on a constructed database *)

LoadFullCall(o) ==
    LET r == LoadFull(o)
    IN  /\ pc = "ready"
        /\ call' = [op |-> "load_full", obj |-> o, ret |-> r.ret, io |-> r.io]
        /\ objs' = ObjsAfter(o, r)
        /\ UNCHANGED <<store_opens, memo_total_genes, memo_genes, memo_geneset, disk>>
        /\ UNCHANGED threadVars

LoadCall(o, genes) ==
    LET r == Load(o, genes)
    IN  /\ pc = "ready"
        /\ call' = [op |-> "load", obj |-> o, genes |-> genes, ret |-> r.ret, io |-> r.io]
        /\ objs' = ObjsAfter(o, r)
        /\ memo_geneset' =
              IF objs[o].kind = "Feather"
              THEN {e \in memo_geneset : e[1] # o} \cup {<<o, GenesetAfterLoad(o, genes)>>}
              ELSE memo_geneset
        /\ memo_genes' = IF objs[o].kind = "Feather" THEN GenesMemoAfterGeneset(o) ELSE memo_genes
        /\ UNCHANGED <<store_opens, memo_total_genes, disk>>
        /\ UNCHANGED threadVars

GetName(o) ==
    /\ pc = "ready"
    /\ call' = [op |-> "name", obj |-> o, ret |-> Name(o)]
    /\ UNCHANGED dbVars
    /\ UNCHANGED threadVars

GetTotalGenes(o) ==
    /\ pc = "ready"
    /\ call' = [op |-> "total_genes", obj |-> o, ret |-> TotalGenes(o)]
    /\ memo_total_genes' = TotalGenesMemoAfter(o)
    /\ UNCHANGED <<objs, store_opens, memo_genes, memo_geneset, disk>>
    /\ UNCHANGED threadVars

GetGenes(o) ==
    /\ pc = "ready"
    /\ call' = [op |-> "genes", obj |-> o, ret |-> Genes(o)]
    /\ memo_genes' = GenesMemoAfter(o)
    /\ UNCHANGED <<objs, store_opens, memo_total_genes, memo_geneset, disk>>
    /\ UNCHANGED threadVars

GetGeneset(o) ==
    /\ pc = "ready"
    /\ call' = [op |-> "geneset", obj |-> o, ret |-> Geneset(o)]
    /\ memo_geneset' = GenesetMemoAfter(o)
    /\ memo_genes' = GenesMemoAfterGeneset(o)
    /\ UNCHANGED <<objs, store_opens, memo_total_genes, disk>>
    /\ UNCHANGED threadVars

----------------------------------------------------------------------------
(* Specifications *)

InitDb ==
    /\ objs = <<>>
    /\ store_opens = 0
    /\ memo_total_genes = {}
    /\ memo_genes = {}
    /\ memo_geneset = {}
    /\ call = NoCall

\* The import of the module, for every value of PYARROW_THREADS, and the calls of
\* set_nbr_pyarrow_threads after it.
InitThreads ==
    /\ environ \in EnvValues
    /\ pyarrow_threads = DefaultThreads
    /\ cpu_count \in 1..MaxThreadArg
    /\ pc = "class_body"
    /\ disk = TableA
    /\ InitDb

NextThreads ==
    \/ ClassBody
    \/ ModuleCall
    \/ \E a \in ThreadArgs : SetNbrPyarrowThreads(a)

SpecThreads == InitThreads /\ [][NextThreads]_vars

\* The state once the module is imported with PYARROW_THREADS unset.
Imported ==
    /\ environ = NoEnv
    /\ pyarrow_threads = DefaultThreads
    /\ cpu_count = DefaultThreads
    /\ pc = "ready"
    /\ InitDb

InitImported ==
    /\ Imported
    /\ disk = TableA

\* The same, for either table in the store file.
InitMeta ==
    /\ Imported
    /\ disk \in {TableA, TableB}

\* Opening and wrapping databases, over every path and name.
NextOpen ==
    \/ \E fname \in Paths, name \in Names : OpenDb(fname, name)
    \/ \E fname \in Paths, name \in Names : NewFeather(fname, name)
    \/ \E db \in {0} \cup Ids : NewMemory(db)
    \/ \E o \in Ids : GetName(o)

SpecOpen == InitImported /\ [][NextOpen]_vars

\* Databases opened on the store d/a.b.feather, and decorators of them.
LoadPaths == {PathA}
LoadNames == {"x"}

Opens ==
    \/ \E fname \in LoadPaths, name \in LoadNames : OpenDb(fname, name)
    \/ \E db \in Ids : NewMemory(db)

\* Loading from them.
Next ==
    \/ Opens
    \/ \E o \in Ids : LoadFullCall(o)
    \/ \E o \in Ids, genes \in Signatures : LoadCall(o, genes)

Spec == InitImported /\ [][Next]_vars

\* Reading their metadata.
NextMeta ==
    \/ Opens
    \/ \E o \in Ids : GetName(o)
    \/ \E o \in Ids : GetTotalGenes(o)
    \/ \E o \in Ids : GetGenes(o)
    \/ \E o \in Ids : GetGeneset(o)

SpecMeta == InitMeta /\ [][NextMeta]_vars

----------------------------------------------------------------------------
(* Properties *)

IsFeather(o) == objs[o].kind = "Feather"
IsMemory(o) == objs[o].kind = "Memory"

\* The feature rows of the store behind o.
FeatureRows(o) == objs[Root(o)].ct_db.df.rows

NoDuplicates(seq) == \A i, j \in 1..Len(seq) : seq[i] = seq[j] => i = j

\* Position of gene g among the columns cols.
Position(cols, g) == CHOOSE i \in 1..Len(cols) : cols[i] = g

\* Same feature rows, same genes, and the same ranks for every gene.
ColumnEquivalent(t, u) ==
    /\ t.rows = u.rows
    /\ Len(t.cols) = Len(u.cols)
    /\ Range(t.cols) = Range(u.cols)
    /\ \A i \in 1..Len(t.cols), j \in 1..Len(u.cols) : t.cols[i] = u.cols[j] => t.data[i] = u.data[j]

\* C1: for a File-backed database and for a decorator alike, the gene columns of
\* load(S) are exactly geneset /\ set(S.genes), each once, whatever the order and the
\* duplicates of S.genes; genes the source does not rank are dropped without error;
\* with an empty intersection the table has no gene column and still every feature row.
C1_LoadColumns ==
    call.op = "load" =>
        /\ Range(call.ret.cols) = Geneset(call.obj) \cap Range(call.genes)
        /\ NoDuplicates(call.ret.cols)
        /\ Len(call.ret.data) = Len(call.ret.cols)
        /\ call.ret.rows = FeatureRows(call.obj)
        /\ (Geneset(call.obj) \cap Range(call.genes) = {} => call.ret.cols = <<>>)

\* A decorator was asked for a signature naming twice a gene no store ranks.
C1_Witness ==
    /\ call.op = "load"
    /\ IsMemory(call.obj)
    /\ call.genes = <<"E", "E">>
    /\ call.ret.cols = <<>>
    /\ call.ret.rows = <<"m1", "m2">>

\* C2: a decorator calls load_full of the database it wraps once, at construction,
\* and never again: its count of requests to the wrapped database stays one, and its
\* own load_full and load make no request to the store.
C2_OneFullLoad ==
    /\ \A d \in Ids : IsMemory(d) => objs[d].requests = 1
    /\ (call.op = "MemoryDecorator" /\ call.err = "none") =>
            /\ call.loaded
            /\ call.io = (IF IsFeather(call.db) THEN 1 ELSE 0)
    /\ (call.op \in {"load", "load_full"} /\ IsMemory(call.obj)) => call.io = 0

\* A decorator of a decorator served a load_full.
C2_Witness ==
    /\ call.op = "load_full"
    /\ IsMemory(call.obj)
    /\ IsMemory(objs[call.obj]._db)
    /\ call.ret.cols # <<>>

\* C3: at any time, load_full of a decorator and load_full of the File-backed database
\* under it give column-equivalent tables, and so does every load_full actually returned.
C3_SameFullTable ==
    /\ \A d \in Ids : IsMemory(d) => ColumnEquivalent(LoadFull(d).ret, LoadFull(Root(d)).ret)
    /\ call.op = "load_full" => ColumnEquivalent(call.ret, LoadFull(Root(call.obj)).ret)

\* A decorator returned the full table of three genes.
C3_Witness ==
    /\ call.op = "load_full"
    /\ IsMemory(call.obj)
    /\ Len(call.ret.cols) = Len(TableA.cols)
    /\ ColumnEquivalent(call.ret, LoadFull(Root(call.obj)).ret)

\* C4: for an existing file and a non-empty name, opendb returns a File-backed database
\* of exactly that name when the extension is .feather, and for every other extension
\* raises UnsupportedFormat naming the extension; in that case no object is constructed
\* and the store is not opened.
C4_Dispatch ==
    (call.op = "opendb" /\ IsFile(call.fname) /\ call.name # "") =>
        IF SplitExt(call.fname) = FEATHER
        THEN /\ call.err = "none"
             /\ call.ret = Len(objs)
             /\ IsFeather(call.ret)
             /\ Name(call.ret) = call.name
             /\ objs[call.ret]._fname = call.fname
        ELSE /\ call.err = "UnsupportedFormat"
             /\ call.ext = SplitExt(call.fname)
             /\ call.ret = 0

C4_NothingConstructed ==
    (call'.op = "opendb" /\ call'.err = "UnsupportedFormat") =>
        /\ objs' = objs
        /\ store_opens' = store_opens

C4_OpenDb == []C4_Dispatch /\ [][C4_NothingConstructed]_vars

\* opendb refused a.FEATHER, a store whose extension is not .feather, after it had
\* opened d/a.b.feather under the name "y".
C4_Witness ==
    /\ call.op = "opendb"
    /\ call.fname = PathUpper
    /\ call.err = "UnsupportedFormat"
    /\ call.ext = <<".", "F", "E", "A", "T", "H", "E", "R">>
    /\ Len(objs) = 1
    /\ Name(1) = "y"
    /\ store_opens = 1

\* C5: once the class body has run, the thread count is the default when
\* PYARROW_THREADS is absent, the default when it is present and int() rejects it, 1
\* when the parsed value is below 1, and the parsed value otherwise; it is at least 1.
C5_ResolvedThreads ==
    pc # "class_body" =>
        /\ pyarrow_threads =
              (IF environ = NoEnv THEN DefaultThreads
               ELSE IF IntRaises(environ) THEN DefaultThreads
               ELSE IF IntOf(environ) < 1 THEN 1
               ELSE IntOf(environ))
        /\ pyarrow_threads >= 1

\* PYARROW_THREADS=-7 was clamped to 1.
C5_Witness ==
    /\ pc = "ready"
    /\ environ = <<"-", "7">>
    /\ pyarrow_threads = 1

IsSetNbr(c) == c.op = "set_nbr_pyarrow_threads"

\* C6 as stated: after set_nbr_pyarrow_threads the reader's pool size is the count
\* supplied, whenever one is supplied, and the resolved count when none is.
C6_Original ==
    IsSetNbr(call) =>
        cpu_count = (IF call.arg.given THEN call.arg.n ELSE pyarrow_threads)

C6_Applied ==
    IsSetNbr(call) =>
        /\ call.err = "none"
        /\ (call.arg.given /\ call.arg.n >= 1) => cpu_count = call.arg.n
        /\ (~call.arg.given \/ call.arg.n = 0) => cpu_count = pyarrow_threads

C6_Idempotent ==
    IsSetNbr(call') =>
        /\ pyarrow_threads' = pyarrow_threads
        /\ (IsSetNbr(call) /\ call'.arg = call.arg) => cpu_count' = cpu_count

\* C6, amended: the pool size is set to the count supplied when that count is
\* positive, and to the resolved count when none or 0 is supplied; a repeated call
\* with the same argument changes nothing, and no call changes the resolved count.
C6_Amended == []C6_Applied /\ [][C6_Idempotent]_vars

\* With PYARROW_THREADS=7, a call with 0 set the pool size to 7.
C6_Witness ==
    /\ IsSetNbr(call)
    /\ call.arg = Given(0)
    /\ environ = <<"7">>
    /\ cpu_count = 7

IsNewFeather(c) == c.op = "FeatherRankingDatabase"

\* Every object has a name and, if File-backed, a store opened for it and for it alone.
C7_ObjectsValid ==
    /\ \A o \in Ids : Name(o) # ""
    /\ \A o \in Ids : IsFeather(o) => (objs[o].ct_db = init_ct_db(objs[o]._fname)
                                        /\ objs[o]._fname \in StoreFiles)
    /\ store_opens = Cardinality({o \in Ids : IsFeather(o)})

C7_DecoratorChecked ==
    (call.op = "MemoryDecorator" /\ call.db = 0) =>
        (call.err = "InvalidArgument" /\ ~call.loaded /\ call.ret = 0)

\* C7 as stated: the constructor fails with NotFound whenever the file does not exist
\* and with InvalidArgument whenever the name is empty.
C7_Original ==
    /\ IsNewFeather(call) =>
            /\ ~IsFile(call.fname) => call.err = "NotFound"
            /\ call.name = "" => call.err = "InvalidArgument"
    /\ C7_DecoratorChecked
    /\ C7_ObjectsValid

C7_Raised ==
    /\ IsNewFeather(call) =>
            /\ call.name = "" => (call.err = "InvalidArgument" /\ call.ret = 0)
            /\ (call.name # "" /\ ~IsFile(call.fname)) => (call.err = "NotFound" /\ call.ret = 0)
    /\ C7_DecoratorChecked
    /\ C7_ObjectsValid

C7_NotOpened ==
    /\ (IsNewFeather(call') /\ call'.err \in {"InvalidArgument", "NotFound"}) =>
            (store_opens' = store_opens /\ objs' = objs)
    /\ (call'.op = "MemoryDecorator" /\ call'.err # "none") =>
            (store_opens' = store_opens /\ objs' = objs)

\* C7, amended: the File-backed constructor fails with InvalidArgument if the name is
\* empty, whether or not the file exists, and with NotFound if the name is not empty
\* and the file does not exist; in either failure the store is not opened; a decorator
\* given no database fails with InvalidArgument before any load_full; every object
\* that exists has a non-empty name and an opened store.
C7_Amended == []C7_Raised /\ [][C7_NotOpened]_vars

\* The constructor was given an empty name and a file that does not exist.
C7_Witness ==
    /\ IsNewFeather(call)
    /\ call.name = ""
    /\ call.fname = PathMissing
    /\ call.err = "InvalidArgument"
    /\ Len(objs) > 0

\* C8: a load or load_full call leaves name, genes, total_genes, geneset and the
\* decorator's table as they were, and leaves unchanged what load would return for
\* every instance and signature; a load returns exactly that, so a second load with
\* the same signature returns the same table however many such calls came between.
C8_Unchanged ==
    /\ Len(objs') = Len(objs)
    /\ \A o \in Ids :
          /\ Name(o)' = Name(o)
          /\ Genes(o)' = Genes(o)
          /\ TotalGenes(o)' = TotalGenes(o)
          /\ Geneset(o)' = Geneset(o)
          /\ objs'[o]._df = objs[o]._df
          /\ LoadFull(o).ret' = LoadFull(o).ret
          /\ \A genes \in Signatures : Load(o, genes).ret' = Load(o, genes).ret

\* A step that writes none of the variables these values are read from changes none
\* of them; the others are compared value by value.
C8_Frame ==
    call'.op \in {"load", "load_full"} =>
        /\ UNCHANGED <<objs, memo_total_genes, memo_genes, memo_geneset, disk>> \/ C8_Unchanged
        /\ call'.op = "load" => call'.ret = Load(call'.obj, call'.genes).ret
        /\ call'.op = "load_full" => call'.ret = LoadFull(call'.obj).ret

C8_NoHiddenEffect == [][C8_Frame]_vars

\* A File-backed database whose geneset is already cached served a load.
C8_Witness ==
    /\ call.op = "load"
    /\ IsFeather(call.obj)
    /\ Cached(memo_geneset, call.obj)
    /\ call.genes = <<"B", "E">>
    /\ call.ret.cols = <<"B">>
    /\ \E d \in Ids : IsMemory(d)

\* C9: total_genes equals len(genes) for every constructed database, in every state,
\* cached or not, and each value returned agrees with the other property.
C9_TotalGenes ==
    /\ \A o \in Ids : TotalGenes(o) = Len(Genes(o))
    /\ call.op = "total_genes" => call.ret = Len(Genes(call.obj))
    /\ call.op = "genes" => Len(call.ret) = TotalGenes(call.obj)

\* A decorator returned a total of three genes, from the cache of the database it wraps.
C9_Witness ==
    /\ call.op = "total_genes"
    /\ IsMemory(call.obj)
    /\ Cached(memo_total_genes, Root(call.obj))
    /\ ~Cached(memo_genes, Root(call.obj))
    /\ call.ret = Len(TableA.cols)

\* C10: the columns a decorator's load returns are those of its cached table named in
\* the signature, in the cached table's order, wherever they stand in S.genes.
C10_CachedOrder ==
    (call.op = "load" /\ IsMemory(call.obj)) =>
        LET cached == objs[call.obj]._df.cols
            got == call.ret.cols
        IN  /\ Range(got) = Range(cached) \cap Range(call.genes)
            /\ \A i, j \in 1..Len(got) :
                  i < j => Position(cached, got[i]) < Position(cached, got[j])
            /\ \A i \in 1..Len(got) :
                  call.ret.data[i] = objs[call.obj]._df.data[Position(cached, got[i])]

\* A signature naming A before B got B before A, the order of the cached table.
C10_Witness ==
    /\ call.op = "load"
    /\ IsMemory(call.obj)
    /\ call.genes = <<"A", "B">>
    /\ call.ret.cols = <<"B", "A">>

====
